---- MODULE Spec2Model ----
(***************************************************************************)
(* Model of the Scoring & Report Builder of the Accessibility Analyzer     *)
(* (src/server.js and src/unnamed/part_000).  The two files hold four      *)
(* revisions of the same server; the revision that is deployed is the      *)
(* state variable `variant`:                                               *)
(*   "server_a"  src/server.js          lines    1 ..  617                 *)
(*   "server_b"  src/server.js          lines  618 .. 1132                 *)
(*   "part_a"    src/unnamed/part_000   lines    1 ..  677                 *)
(*   "part_b"    src/unnamed/part_000   lines  678 .. 1251                 *)
(* JavaScript numbers are IEEE-754 doubles; the arithmetic the scores use  *)
(* is modelled bit by bit (53-bit significands, round to nearest even).    *)
(* JavaScript strings are TLA+ strings; includes, replace, toLowerCase are *)
(* computed on their characters.                                           *)
(***************************************************************************)
EXTENDS Integers, Sequences, FiniteSets, TLC

VARIABLES variant, axeResults, input, type, now, dbConnected, reports,
          mongodbUri, Analysis, req, pc, res, calls, fetch, failure,
          sent, globals, jobs

\* the variables of a request on its way through a route handler
hvars == <<mongodbUri, Analysis, req, pc, res, calls, fetch, failure,
           sent, globals, jobs>>

vars == <<variant, axeResults, input, type, now, dbConnected, reports,
          mongodbUri, Analysis, req, pc, res, calls, fetch, failure,
          sent, globals, jobs>>

----------------------------------------------------------------------------
(* JavaScript strings                                                      *)

\* String.prototype.includes(sub)
Includes(s, sub) ==
  \E k \in 1..(Len(s) - Len(sub) + 1) : SubSeq(s, k, k + Len(sub) - 1) = sub

\* String.prototype.indexOf(sub), 1-based; 0 when sub does not occur
IndexOf(s, sub) ==
  IF Includes(s, sub)
  THEN CHOOSE k \in 1..(Len(s) - Len(sub) + 1) :
         /\ SubSeq(s, k, k + Len(sub) - 1) = sub
         /\ \A j \in 1..(k - 1) : SubSeq(s, j, j + Len(sub) - 1) # sub
  ELSE 0

\* String.prototype.replace(sub, rep) with a string pattern: the first
\* occurrence only
Replace(s, sub, rep) ==
  LET k == IndexOf(s, sub)
  IN  IF k = 0 THEN s
      ELSE SubSeq(s, 1, k - 1) \o rep \o SubSeq(s, k + Len(sub), Len(s))

UpperCase == "ABCDEFGHIJKLMNOPQRSTUVWXYZ"
LowerCase == "abcdefghijklmnopqrstuvwxyz"

LowerChar(c) ==
  LET k == IndexOf(UpperCase, c)
  IN  IF k = 0 THEN c ELSE SubSeq(LowerCase, k, k)

RECURSIVE ToLowerCase(_)
\* String.prototype.toLowerCase()
ToLowerCase(s) ==
  IF Len(s) = 0 THEN s
  ELSE LowerChar(SubSeq(s, 1, 1)) \o ToLowerCase(SubSeq(s, 2, Len(s)))

\* String.prototype.startsWith(prefix)
StartsWith(s, prefix) ==
  Len(prefix) <= Len(s) /\ SubSeq(s, 1, Len(prefix)) = prefix

RECURSIVE TrimStart(_)
TrimStart(s) ==
  IF Len(s) > 0 /\ SubSeq(s, 1, 1) = " " THEN TrimStart(SubSeq(s, 2, Len(s))) ELSE s

RECURSIVE TrimEnd(_)
TrimEnd(s) ==
  IF Len(s) > 0 /\ SubSeq(s, Len(s), Len(s)) = " "
  THEN TrimEnd(SubSeq(s, 1, Len(s) - 1)) ELSE s

\* String.prototype.trim(), for strings whose only white space is the blank
Trim(s) == TrimEnd(TrimStart(s))

----------------------------------------------------------------------------
(* JavaScript numbers: IEEE-754 binary64                                   *)
(* A positive double is [m |-> bits, e |-> exponent]: m is its 53-bit      *)
(* significand, most significant bit first (m[1] = 1), and its value is    *)
(* the sum of m[k] * 2^(e - k + 1).  Zero is [m |-> <<>>, e |-> 0].        *)

Precision == 53

Zero == [m |-> <<>>, e |-> 0]

RECURSIVE Incr(_)
\* bits + 1; the result is one bit longer when every bit was 1
Incr(bits) ==
  IF Len(bits) = 0 THEN <<1>>
  ELSE IF bits[Len(bits)] = 0
       THEN SubSeq(bits, 1, Len(bits) - 1) \o <<1>>
       ELSE LET hi == Incr(SubSeq(bits, 1, Len(bits) - 1))
            IN  hi \o <<0>>

\* round to nearest, ties to even: `kept` are the leading Precision bits of
\* the exact result, whose leading bit has exponent e; guard is the first
\* dropped bit and sticky says whether any later dropped bit is non-zero
RoundNearestEven(kept, e, guard, sticky) ==
  IF guard = 1 /\ (sticky \/ kept[Len(kept)] = 1)
  THEN LET up == Incr(kept)
       IN  IF Len(up) > Len(kept)
           THEN [m |-> SubSeq(up, 1, Len(kept)), e |-> e + 1]
           ELSE [m |-> up, e |-> e]
  ELSE [m |-> kept, e |-> e]

\* the arithmetic runs on digits of Digit bits, four of them to the 52
\* fraction bits of a significand
Digit == (Precision - 1) \div 4

RECURSIVE Pow2(_)
Pow2(k) == IF k = 0 THEN 1 ELSE 2 * Pow2(k - 1)

\* the w-bit numeral of v, most significant bit first
IntToBits(v, w) == [j \in 1..w |-> (v \div Pow2(w - j)) % 2]

RECURSIVE BitsToInt(_)
BitsToInt(bits) ==
  IF Len(bits) = 0 THEN 0
  ELSE 2 * BitsToInt(SubSeq(bits, 1, Len(bits) - 1)) + bits[Len(bits)]

RECURSIVE BitLength(_)
\* the number of bits of v without leading zeros
BitLength(v) == IF v = 0 THEN 0 ELSE 1 + BitLength(v \div 2)

RECURSIVE LongDiv(_, _, _, _)
\* k more quotient bits of r / d (0 <= r < d), appended to acc, a digit at
\* a time
LongDiv(r, d, k, acc) ==
  IF k = 0 THEN [bits |-> acc, rem |-> r]
  ELSE LET w == IF k < Digit THEN k ELSE Digit
           t == r * Pow2(w)
       IN  LongDiv(t % d, d, k - w, acc \o IntToBits(t \div d, w))

RECURSIVE Normalize(_, _, _)
\* scales n / d into [1, 2): [n, d, e] with n / d * 2^e the value given
Normalize(n, d, e) ==
  IF n < d THEN Normalize(2 * n, d, e - 1)
  ELSE IF n >= 2 * d THEN Normalize(n, 2 * d, e + 1)
  ELSE [n |-> n, d |-> d, e |-> e]

\* the double nearest to n / d, for integers n >= 0 and d > 0: what the
\* operator / returns for operands whose quotient is exactly n / d
Quotient(n, d) ==
  IF n = 0 THEN Zero
  ELSE LET s == Normalize(n, d, 0)
           q == LongDiv(s.n - s.d, s.d, Precision - 1, <<1>>)
           guard == IF 2 * q.rem >= s.d THEN 1 ELSE 0
           sticky == (2 * q.rem # s.d) /\ (q.rem # 0)
       IN  RoundNearestEven(q.bits, s.e, guard, sticky)

\* the double of the integer n
FromInt(n) == Quotient(n, 1)

RECURSIVE MulBits(_, _, _, _)
\* bits * k for a small integer k, a digit at a time from the low end: acc
\* collects the product's low bits
MulBits(bits, k, carry, acc) ==
  IF Len(bits) = 0
  THEN IntToBits(carry, BitLength(carry)) \o acc
  ELSE LET w == IF Len(bits) < Digit THEN Len(bits) ELSE Digit
           low == BitsToInt(SubSeq(bits, Len(bits) - w + 1, Len(bits)))
           t == low * k + carry
       IN  MulBits(SubSeq(bits, 1, Len(bits) - w), k, t \div Pow2(w),
                   IntToBits(t % Pow2(w), w) \o acc)

\* x * k for a double x and a small integer k >= 1 (the operator * with an
\* integer operand), correctly rounded
Times(x, k) ==
  IF x = Zero THEN Zero
  ELSE LET p == MulBits(x.m, k, 0, <<>>)
           extra == Len(p) - Precision
           kept == SubSeq(p, 1, Precision)
           guard == IF extra >= 1 THEN p[Precision + 1] ELSE 0
           sticky == \E j \in (Precision + 2)..Len(p) : p[j] = 1
       IN  RoundNearestEven(kept, x.e + extra, guard, sticky)

\* Math.floor(x) for a double 0 <= x < 2^30
MathFloor(x) ==
  IF x = Zero \/ x.e < 0 THEN 0
  ELSE BitsToInt(SubSeq(x.m, 1, x.e + 1))

\* whether the fraction of x is at least one half
HalfOrMore(x) ==
  IF x = Zero \/ x.e < -1 THEN FALSE
  ELSE x.e + 2 <= Len(x.m) /\ x.m[x.e + 2] = 1

\* Math.round(x) for a double 0 <= x < 2^30: the nearest integer, a tie
\* going up
MathRound(x) == MathFloor(x) + (IF HalfOrMore(x) THEN 1 ELSE 0)

\* Math.ceil(x) for a double 0 <= x < 2^30 (the code never calls it: the
\* mutant of calculateIssueDistribution does)
MathCeil(x) ==
  IF x = Zero THEN 0
  ELSE IF \E j \in 1..Len(x.m) : j > x.e + 1 /\ x.m[j] = 1
       THEN MathFloor(x) + 1
       ELSE MathFloor(x)

\* Math.min(a, b) on integers
MathMin(a, b) == IF a <= b THEN a ELSE b

----------------------------------------------------------------------------
(* JavaScript values and objects                                           *)
(* A value that may be a string, undefined or a member inherited from      *)
(* Object.prototype is a record [t, v]; tags and report texts that are     *)
(* always strings are plain strings.                                       *)

Str(s) == [t |-> "string", v |-> s]
Undefined == [t |-> "undefined", v |-> ""]
Inherited(k) == [t |-> "inherited", v |-> k]

\* the truthiness || and ?: test
Truthy(val) == val.t = "inherited" \/ (val.t = "string" /\ val.v # "")

\* a || b
Or(a, b) == IF Truthy(a) THEN a ELSE b

\* the members every object literal inherits from Object.prototype
ObjectPrototypeKeys ==
  {"constructor", "hasOwnProperty", "isPrototypeOf", "propertyIsEnumerable",
   "toLocaleString", "toString", "valueOf", "__proto__"}

\* the property key a value is converted to in obj[val]
ToPropertyKey(val) ==
  IF val.t = "string" THEN val.v
  ELSE IF val.t = "undefined" THEN "undefined"
  ELSE "[inherited " \o val.v \o "]"

\* obj[val] for an object literal obj with string values: an own property,
\* else a member inherited from Object.prototype, else undefined
GetProp(obj, val) ==
  LET k == ToPropertyKey(val)
  IN  IF k \in DOMAIN obj THEN Str(obj[k])
      ELSE IF k \in ObjectPrototypeKeys THEN Inherited(k)
      ELSE Undefined

\* whether obj[val] !== undefined, for an object literal obj
Defined(obj, val) ==
  LET k == ToPropertyKey(val)
  IN  k \in DOMAIN obj \/ k \in ObjectPrototypeKeys

\* impact?.toLowerCase()
OptToLowerCase(impact) ==
  IF impact.t = "string" THEN Str(ToLowerCase(impact.v)) ELSE Undefined

\* Array.prototype.includes
ArrayIncludes(arr, x) == \E k \in 1..Len(arr) : arr[k] = x

\* Array.prototype.find with the predicate tag => tag.includes(sub): the
\* index of the first such tag, 0 when find returns undefined
FindIncluding(tags, sub) ==
  IF \E k \in 1..Len(tags) : Includes(tags[k], sub)
  THEN CHOOSE k \in 1..Len(tags) :
         /\ Includes(tags[k], sub)
         /\ \A j \in 1..(k - 1) : ~Includes(tags[j], sub)
  ELSE 0

----------------------------------------------------------------------------
(* The four revisions                                                      *)

Variants == {"server_a", "server_b", "part_a", "part_b"}

\* mapSeverity, mapSeverityToPriority and getEstimatedEffort look the impact
\* up as impact?.toLowerCase() (server.js:90, part_000:761) or as impact
\* (server.js:773, part_000:232)
LowerCasesImpact == variant \in {"server_a", "part_b"}

\* calculateSeverityBreakdown drops the entries whose count is 0
\* (server.js:868, part_000:330) or keeps all four (server.js:191,
\* part_000:853)
FiltersZeroCounts == variant \in {"server_b", "part_a"}

----------------------------------------------------------------------------
(* Helper functions                                                        *)

\* Math.round(x) for an integer-valued number x
RoundInt(n) == MathRound(FromInt(n))

\* Math.round((n / d) * 100)
RoundPercent(n, d) == MathRound(Times(Quotient(n, d), 100))

\* passes.length + incomplete.length * 0.5 is a multiple of one half, which
\* a double holds exactly, so the quotient by totalChecks is the double
\* nearest to (2 * passes + incomplete) / (2 * totalChecks)
\* mutant: the credits of passes and incomplete checks are swapped
calculateComplianceScoreSwappedCredit(violations, passes, incomplete) ==
  LET totalChecks == Len(violations) + Len(passes) + Len(incomplete)
  IN  IF totalChecks = 0 THEN 100
      ELSE RoundPercent(Len(passes) + 2 * Len(incomplete), 2 * totalChecks)

calculateComplianceScore(violations, passes, incomplete) ==
  LET totalChecks == Len(violations) + Len(passes) + Len(incomplete)
      passedChecks == Len(passes)
      twicePartialCredit == Len(incomplete)
  IN  IF totalChecks = 0 THEN 100
      ELSE RoundPercent(2 * passedChecks + twicePartialCredit, 2 * totalChecks)

severityMap ==
  IF LowerCasesImpact
  THEN [critical |-> "Critical", serious |-> "Serious",
        moderate |-> "Moderate", minor |-> "Minor"]
  ELSE [critical |-> "CRITICAL", serious |-> "SERIOUS",
        moderate |-> "MODERATE", minor |-> "MINOR"]

\* the key the three impact tables are read with
ImpactKey(impact) == IF LowerCasesImpact THEN OptToLowerCase(impact) ELSE impact

mapSeverity(impact) ==
  Or(GetProp(severityMap, ImpactKey(impact)), Str(severityMap.moderate))

priorityMap ==
  [critical |-> "High", serious |-> "High", moderate |-> "Medium", minor |-> "Low"]

mapSeverityToPriority(impact) ==
  Or(GetProp(priorityMap, ImpactKey(impact)), Str("Medium"))

effortMap ==
  [critical |-> "2-4 hours", serious |-> "1-3 hours",
   moderate |-> "30 minutes - 1 hour", minor |-> "15-30 minutes"]

getEstimatedEffort(impact) ==
  Or(GetProp(effortMap, ImpactKey(impact)), Str("1 hour"))

getAffectedGroups(tags) ==
  LET g1 == IF ArrayIncludes(tags, "cat.keyboard") THEN <<"Keyboard users">> ELSE <<>>
      g2 == IF ArrayIncludes(tags, "cat.images") THEN <<"Screen reader users">> ELSE <<>>
      g3 == IF ArrayIncludes(tags, "cat.color")
            THEN <<"Users with color blindness">> ELSE <<>>
      g4 == IF ArrayIncludes(tags, "cat.forms")
            THEN <<"All users interacting with forms">> ELSE <<>>
      groups == g1 \o g2 \o g3 \o g4
  IN  IF Len(groups) = 0 THEN <<"All users">> ELSE groups

categoryColors ==
  [Visual |-> "#ef4444", Navigation |-> "#f97316", Forms |-> "#eab308",
   ARIA |-> "#06b6d4"]

getCategoryColor(category) ==
  Or(GetProp(categoryColors, Str(category)), Str("#6b7280")).v

severityColors ==
  LET upper == [CRITICAL |-> "#dc2626", SERIOUS |-> "#ea580c",
                MODERATE |-> "#d97706", MINOR |-> "#0891b2"]
      mixed == [Critical |-> "#dc2626", Serious |-> "#ea580c",
                Moderate |-> "#d97706", Minor |-> "#0891b2"]
  IN  IF variant = "server_b" THEN upper @@ mixed
      ELSE IF variant = "part_a" THEN upper
      ELSE mixed

getSeverityColor(severity) ==
  Or(GetProp(severityColors, Str(severity)), Str("#6b7280")).v

\* the order of the keys of the object literal `categories`
CategoryNames == <<"Visual", "Navigation", "Forms", "ARIA">>

\* mutant: the first category tag of the tag list decides, whatever its
\* place in the precedence
CategoryOfFirstTag(violation) ==
  LET cats == SelectSeq(violation.tags,
                LAMBDA t : t \in {"cat.color", "cat.images", "cat.keyboard",
                                  "cat.navigation", "cat.forms", "cat.aria"})
  IN  IF Len(cats) = 0 THEN "Visual"
      ELSE IF cats[1] \in {"cat.color", "cat.images"} THEN "Visual"
      ELSE IF cats[1] \in {"cat.keyboard", "cat.navigation"} THEN "Navigation"
      ELSE IF cats[1] = "cat.forms" THEN "Forms"
      ELSE "ARIA"

\* the bucket the forEach body increments for one violation
CategoryOf(violation) ==
  IF ArrayIncludes(violation.tags, "cat.color")
       \/ ArrayIncludes(violation.tags, "cat.images") THEN "Visual"
  ELSE IF ArrayIncludes(violation.tags, "cat.keyboard")
       \/ ArrayIncludes(violation.tags, "cat.navigation") THEN "Navigation"
  ELSE IF ArrayIncludes(violation.tags, "cat.forms") THEN "Forms"
  ELSE IF ArrayIncludes(violation.tags, "cat.aria") THEN "ARIA"
  ELSE "Visual"

RECURSIVE CountCategories(_, _)
\* `categories` after the forEach over violations
CountCategories(violations, categories) ==
  IF Len(violations) = 0 THEN categories
  ELSE CountCategories(Tail(violations),
         [categories EXCEPT ![CategoryOf(Head(violations))] = @ + 1])

RECURSIVE SumCounts(_, _)
\* Object.values(counts).reduce((sum, count) => sum + count, 0)
SumCounts(names, counts) ==
  IF Len(names) = 0 THEN 0
  ELSE counts[Head(names)] + SumCounts(Tail(names), counts)

\* mutant: Math.ceil where the code has Math.round
calculateIssueDistributionCeil(violations) ==
  LET categories == CountCategories(violations,
                      [Visual |-> 0, Navigation |-> 0, Forms |-> 0, ARIA |-> 0])
      total == SumCounts(CategoryNames, categories)
  IN  [k \in 1..Len(CategoryNames) |->
         LET name == CategoryNames[k]
         IN  [name |-> name,
              value |-> IF total > 0
                        THEN MathCeil(Times(Quotient(categories[name], total), 100))
                        ELSE 0,
              color |-> getCategoryColor(name)]]

calculateIssueDistribution(violations) ==
  LET categories == CountCategories(violations,
                      [Visual |-> 0, Navigation |-> 0, Forms |-> 0, ARIA |-> 0])
      total == SumCounts(CategoryNames, categories)
  IN  [k \in 1..Len(CategoryNames) |->
         LET name == CategoryNames[k]
         IN  [name |-> name,
              value |-> IF total > 0 THEN RoundPercent(categories[name], total) ELSE 0,
              color |-> getCategoryColor(name)]]

\* the order of the keys of the object literal `severities`
SeverityNames ==
  <<severityMap.critical, severityMap.serious, severityMap.moderate, severityMap.minor>>

RECURSIVE CountSeverities(_, _)
\* `severities` after the forEach over violations: a violation is counted
\* only when severities[severity] !== undefined
CountSeverities(violations, severities) ==
  IF Len(violations) = 0 THEN severities
  ELSE LET severity == mapSeverity(Head(violations).impact)
           key == ToPropertyKey(severity)
       IN  CountSeverities(Tail(violations),
             IF Defined(severities, severity) /\ key \in DOMAIN severities
             THEN [severities EXCEPT ![key] = @ + 1]
             ELSE severities)

calculateSeverityBreakdown(violations) ==
  LET severities == CountSeverities(violations,
                      [name \in {SeverityNames[k] : k \in 1..4} |-> 0])
      entries == [k \in 1..4 |->
                    [name |-> SeverityNames[k],
                     count |-> severities[SeverityNames[k]],
                     color |-> getSeverityColor(SeverityNames[k])]]
  IN  IF FiltersZeroCounts
      THEN SelectSeq(entries, LAMBDA item : item.count > 0)
      ELSE entries

\* violations.filter(v => v.impact === impact).length
CountImpact(violations, impact) ==
  Cardinality({k \in 1..Len(violations) : violations[k].impact = Str(impact)})

\* mutant: the Math.min cap is missing
calculateAccessibilityImpactUncapped(violations) ==
  LET criticalCount == CountImpact(violations, "critical")
      seriousCount == CountImpact(violations, "serious")
  IN  RoundInt((criticalCount * 15) + (seriousCount * 8) + (Len(violations) * 2))

\* mutant: the violations.length * 2 term is missing
calculateAccessibilityImpactNoBase(violations) ==
  LET criticalCount == CountImpact(violations, "critical")
      seriousCount == CountImpact(violations, "serious")
  IN  MathMin(RoundInt((criticalCount * 15) + (seriousCount * 8)), 100)

\* mutant: the weights of critical and serious are swapped
calculateAccessibilityImpactSwapped(violations) ==
  LET criticalCount == CountImpact(violations, "critical")
      seriousCount == CountImpact(violations, "serious")
      impact == (criticalCount * 8) + (seriousCount * 15) + (Len(violations) * 2)
  IN  MathMin(RoundInt(impact), 100)

calculateAccessibilityImpact(violations) ==
  LET criticalCount == CountImpact(violations, "critical")
      seriousCount == CountImpact(violations, "serious")
      impact == (criticalCount * 15) + (seriousCount * 8) + (Len(violations) * 2)
  IN  MathMin(RoundInt(impact), 100)

\* mutant: "wcag" is stripped only where the tag starts with it
WcagReferenceOfPrefix(tags) ==
  LET k == FindIncluding(tags, "wcag")
      found == IF k = 0 THEN Undefined
               ELSE IF SubSeq(tags[k], 1, 4) = "wcag"
                    THEN Str(SubSeq(tags[k], 5, Len(tags[k])))
                    ELSE Str(tags[k])
  IN  "WCAG 2.1 SC " \o Or(found, Str("N/A")).v

\* tags.find(tag => tag.includes('wcag'))?.replace('wcag', '') || 'N/A'
WcagReferenceOf(tags) ==
  LET k == FindIncluding(tags, "wcag")
      found == IF k = 0 THEN Undefined ELSE Str(Replace(tags[k], "wcag", ""))
  IN  "WCAG 2.1 SC " \o Or(found, Str("N/A")).v

\* tags.find(tag => tag.includes('level'))?.replace('wcag', '')
\*   .replace('level', '') || 'A'
WcagLevelOf(tags) ==
  LET k == FindIncluding(tags, "level")
      found == IF k = 0 THEN Undefined
               ELSE Str(Replace(Replace(tags[k], "wcag", ""), "level", ""))
  IN  Or(found, Str("A")).v

\* mutant: the id is taken from the clock, not from the array index alone
MapViolationClockId(violation, index) ==
  [id |-> "violation-" \o ToString(now + index),
   severity |-> mapSeverity(violation.impact),
   wcagReference |-> WcagReferenceOf(violation.tags),
   wcagLevel |-> WcagLevelOf(violation.tags),
   affectedGroups |-> getAffectedGroups(violation.tags),
   priority |-> mapSeverityToPriority(violation.impact),
   estimatedEffort |-> getEstimatedEffort(violation.impact)]

\* one element of mappedViolations; index is the 0-based array index.  The
\* texts copied unchanged from the finding (description, help, helpUrl, the
\* first node's selector and markup) and the canned code example are left out.
MapViolation(violation, index) ==
  [id |-> "violation-" \o ToString(index),
   severity |-> mapSeverity(violation.impact),
   wcagReference |-> WcagReferenceOf(violation.tags),
   wcagLevel |-> WcagLevelOf(violation.tags),
   affectedGroups |-> getAffectedGroups(violation.tags),
   priority |-> mapSeverityToPriority(violation.impact),
   estimatedEffort |-> getEstimatedEffort(violation.impact)]

\* one element of mappedPasses or mappedIncomplete
MapCheck(check) ==
  [id |-> check.id, wcagReference |-> WcagReferenceOf(check.tags)]

\* new Date().toISOString(): the clock when the report is built
Timestamp == now

mapAxeResults(results, inp, typ) ==
  LET violations == results.violations
      passes == results.passes
      incomplete == results.incomplete
  IN  [type |-> typ,
       input |-> IF typ = "url" THEN inp ELSE "HTML Content",
       timestamp |-> Timestamp,
       complianceScore |-> calculateComplianceScore(violations, passes, incomplete),
       totalIssues |-> Len(violations),
       pagesScanned |-> 1,
       totalPagesFound |-> 1,
       accessibilityImpactScore |-> calculateAccessibilityImpact(violations),
       violations |-> [k \in 1..Len(violations) |-> MapViolation(violations[k], k - 1)],
       passes |-> [k \in 1..Len(passes) |-> MapCheck(passes[k])],
       incomplete |-> [k \in 1..Len(incomplete) |-> MapCheck(incomplete[k])],
       issueDistribution |-> calculateIssueDistribution(violations),
       severityBreakdown |-> calculateSeverityBreakdown(violations),
       note |-> IF variant = "part_a" /\ typ = "url"
                THEN Str("Analysis performed on initial HTML - JavaScript-generated content not included")
                ELSE Undefined]

----------------------------------------------------------------------------
(* Findings the rule engine can return                                     *)

MaxViolations == 8
MaxPasses == 10
MaxIncomplete == 7
MaxMixed == 2
MaxTags == 2
MaxRuns == 2
MaxClock == 2

Violation(impact, tags) == [id |-> "rule", impact |-> impact, tags |-> tags]
Check(tags) == [id |-> "rule", tags |-> tags]
Repeat(x, n) == [k \in 1..n |-> x]

\* the four impacts axe-core documents, differently cased spellings, values
\* no table lists, and an absent impact
ImpactValues ==
  {Str("critical"), Str("serious"), Str("moderate"), Str("minor"),
   Str("Critical"), Str("SERIOUS"), Str("bogus"), Str("constructor"), Undefined}

\* tags with "wcag" in front, inside and alone, with "level" and with both,
\* and category tags
TagValues ==
  {"wcag2a", "wcag111", "wcag", "cat.wcag", "levelAA", "wcaglevelaa",
   "cat.color", "cat.forms", "cat.aria"}

SeqsUpTo(S, n) == UNION {[1..k -> S] : k \in 0..n}

Findings(violations, passes, incomplete) ==
  [violations |-> violations, passes |-> passes, incomplete |-> incomplete]

\* any numbers of violations, passes and incomplete checks
CountFindings ==
  {Findings(Repeat(Violation(Str("moderate"), <<"wcag2a">>), v),
            Repeat(Check(<<"wcag2a">>), p),
            Repeat(Check(<<"wcag2aa">>), i)) :
     v \in 0..MaxViolations, p \in 0..MaxPasses, i \in 0..MaxIncomplete}

\* violations of the severities the impact score weighs
SeverityFindings ==
  {Findings(Repeat(Violation(Str("critical"), <<>>), c)
              \o Repeat(Violation(Str("serious"), <<>>), s)
              \o Repeat(Violation(Str("minor"), <<>>), m), <<>>, <<>>) :
     c \in 0..MaxViolations, s \in 0..MaxViolations, m \in 0..MaxViolations}

\* short lists of violations of every kind of impact
MixedFindings ==
  {Findings([k \in 1..Len(is) |-> Violation(is[k], <<"cat.forms", "wcag2a">>)],
            <<>>, <<>>) : is \in SeqsUpTo(ImpactValues, MaxMixed)}

\* the worked example: two violations, critical and minor, and ten passes
ExampleFindings ==
  Findings(<<Violation(Str("critical"), <<"cat.color", "wcag2aa", "wcag143">>),
             Violation(Str("minor"), <<"cat.aria", "wcag2a", "wcag412">>)>>,
           Repeat(Check(<<"wcag2a">>), 10), <<>>)

\* one finding of each kind with every short tag list
TagFindings ==
  UNION {{Findings(<<Violation(Str("serious"), tags)>>, <<>>, <<>>),
          Findings(<<>>, <<Check(tags)>>, <<>>),
          Findings(<<>>, <<>>, <<Check(tags)>>)} :
         tags \in SeqsUpTo(TagValues, MaxTags)}

\* violations of each category, however many
CategoryFindings ==
  {Findings(Repeat(Violation(Str("moderate"), <<"cat.color">>), a)
              \o Repeat(Violation(Str("moderate"), <<"cat.keyboard">>), b)
              \o Repeat(Violation(Str("moderate"), <<"cat.forms">>), c)
              \o Repeat(Violation(Str("moderate"), <<"cat.aria">>), d),
            <<>>, <<>>) :
     a \in 0..MaxViolations, b \in 0..MaxViolations,
     c \in 0..MaxViolations, d \in 0..MaxViolations}

\* the tags calculateIssueDistribution looks for, and one it ignores
CategoryTags ==
  {"cat.color", "cat.images", "cat.keyboard", "cat.navigation", "cat.forms",
   "cat.aria", "cat.language"}

\* one or two violations carrying several category tags, in any order, or
\* none
MultiCategoryFindings ==
  {Findings(<<Violation(Str("serious"), tags)>>, <<>>, <<>>) :
     tags \in SeqsUpTo(CategoryTags, MaxTags)}
    \cup {Findings(<<Violation(Str("serious"), <<a, b>>),
                     Violation(Str("minor"), <<b, a>>)>>, <<>>, <<>>) :
            a \in CategoryTags, b \in CategoryTags}

AllFindings ==
  CountFindings
    \cup {f \in SeverityFindings : Len(f.violations) <= MaxViolations}
    \cup MixedFindings
    \cup {ExampleFindings}
    \cup TagFindings
    \cup {f \in CategoryFindings : Len(f.violations) <= MaxViolations}
    \cup MultiCategoryFindings

\* the findings a request is analysed twice with
RepeatFindings ==
  {ExampleFindings}
    \cup {Findings(<<Violation(i, <<"levelAA", "cat.wcag">>)>>,
                   <<Check(<<"wcag111">>)>>, <<Check(<<>>)>>) : i \in ImpactValues}

----------------------------------------------------------------------------
(* Requests, responses and the calls a handler makes                       *)

\* res before the handler has sent anything; status 0 stands for "not sent"
NoResponse == [status |-> 0, error |-> "", success |-> FALSE, data |-> <<>>]

\* res.status(status).json({ error })
ErrorReply(status, error) ==
  [status |-> status, error |-> error, success |-> FALSE, data |-> <<>>]

\* res.json({ success: true, data }): the status defaults to 200
SuccessReply(data) ==
  [status |-> 200, error |-> "", success |-> TRUE, data |-> <<data>>]

\* a promise: pending, resolved with a body of `value` characters, or
\* rejected with an Error whose message is `reason`
Pending == [state |-> "pending", value |-> 0, reason |-> ""]

\* resolve(value) and reject(new Error(reason)): a settled promise keeps its
\* first outcome
PromiseResolve(p, value) ==
  IF p.state = "pending"
  THEN [state |-> "resolved", value |-> value, reason |-> ""] ELSE p

PromiseReject(p, reason) ==
  IF p.state = "pending"
  THEN [state |-> "rejected", value |-> 0, reason |-> reason] ELSE p

\* the document fetch of a request: the URL being requested, the redirects
\* followed, the characters and chunks accumulated in `data`, the phase of
\* the transfer and the promise the handler awaits
NoFetch ==
  [phase |-> "idle", url |-> "", hops |-> 0, data |-> 0, chunks |-> 0,
   promise |-> Pending]

NoFailure == [stage |-> "none", kind |-> "none"]

\* no request is being handled
NoRequest ==
  /\ req = [endpoint |-> "none", body |-> Undefined]
  /\ pc = "idle"
  /\ res = NoResponse
  /\ calls = <<>>
  /\ fetch = NoFetch
  /\ failure = NoFailure
  /\ sent = <<>>
  /\ globals = 0
  /\ jobs = <<>>

\* `Analysis` is a model (TRUE) or null (FALSE).  server.js:66 and
\* part_000:738 create the model whenever MONGODB_URI is set; server.js:689
\* and part_000:73 evaluate dbConnected ? model : null while the module
\* loads, when dbConnected is still false, so Analysis stays null
AnalysisAtLoad == mongodbUri /\ variant \in {"server_a", "part_b"}

----------------------------------------------------------------------------
(* The state machine                                                       *)
(*   variant      the revision deployed                                    *)
(*   axeResults   the raw findings of the request (violations, passes,     *)
(*                incomplete)                                              *)
(*   input, type  the request: the URL and "url", or the markup and "html" *)
(*   now          the clock new Date() reads                               *)
(*   dbConnected  the module-level flag the mongoose callback sets         *)
(*   reports      the reports mapAxeResults has returned for this request, *)
(*                oldest first                                             *)
(*   mongodbUri   whether process.env.MONGODB_URI is set                   *)
(*   Analysis     whether the module-level Analysis is a model (not null)  *)
(*   req          the request: its route and its body's url / htmlContent  *)
(*   pc           the statement of the handler the request has reached     *)
(*   res          the response sent                                        *)
(*   calls        the calls made to the browser, the network, the DOM      *)
(*                parser, the rule engine and the store, oldest first      *)
(*   fetch        the document fetch of the request                        *)
(*   failure      the stage and kind of the failure the request met        *)
(*   sent         the responses the handler sent, oldest first, each with  *)
(*                the number of calls made before it                       *)
(*   globals      the DOM global.window and global.document are bound to,  *)
(*                0 when they are not set                                  *)
(*   jobs         the analyses in flight in one process, each with the     *)
(*                statement it has reached                                 *)

Init ==
  /\ variant \in Variants
  /\ axeResults \in AllFindings
  /\ type = "url"
  /\ input = "https://example.com"
  /\ now = 0
  /\ dbConnected = FALSE
  /\ reports = <<>>
  /\ mongodbUri = TRUE
  /\ Analysis = AnalysisAtLoad
  /\ NoRequest

InitRepeat ==
  /\ variant \in Variants
  /\ axeResults \in RepeatFindings
  /\ \/ type = "url" /\ input = "https://example.com"
     \/ type = "html" /\ input = "<html></html>"
  /\ now = 0
  /\ dbConnected = FALSE
  /\ reports = <<>>
  /\ mongodbUri = TRUE
  /\ Analysis = AnalysisAtLoad
  /\ NoRequest

\* the handler maps the findings of the request to its report
Analyze ==
  /\ reports = <<>>
  /\ reports' = <<mapAxeResults(axeResults, input, type)>>
  /\ UNCHANGED <<variant, axeResults, input, type, now, dbConnected>>
  /\ UNCHANGED hvars

\* the same findings, input and type are mapped again
AnalyzeAgain ==
  /\ reports # <<>>
  /\ Len(reports) < MaxRuns
  /\ reports' = Append(reports, mapAxeResults(axeResults, input, type))
  /\ UNCHANGED <<variant, axeResults, input, type, now, dbConnected>>
  /\ UNCHANGED hvars

\* time passes
Tick ==
  /\ now < MaxClock
  /\ now' = now + 1
  /\ UNCHANGED <<variant, axeResults, input, type, dbConnected, reports>>
  /\ UNCHANGED hvars

\* mongoose.connect(...).then(() => { dbConnected = true })
MongoConnected ==
  /\ mongodbUri
  /\ ~dbConnected
  /\ dbConnected' = TRUE
  /\ UNCHANGED <<variant, axeResults, input, type, now, reports>>
  /\ UNCHANGED hvars

Next == Analyze

Spec == Init /\ [][Next]_vars

NextRepeat == Analyze \/ AnalyzeAgain \/ Tick \/ MongoConnected

SpecRepeat == InitRepeat /\ [][NextRepeat]_vars

----------------------------------------------------------------------------
(* URLs                                                                    *)

Letters == LowerCase \o UpperCase
SchemeChars == Letters \o "0123456789+-."

\* a URL scheme: a letter, then letters, digits, "+", "-" and "."
IsScheme(x) ==
  /\ Len(x) > 0
  /\ Includes(Letters, SubSeq(x, 1, 1))
  /\ \A k \in 1..Len(x) : Includes(SchemeChars, SubSeq(x, k, k))

\* the schemes the URL parser requires a host for
SpecialProtocols == {"http:", "https:", "ftp:", "ws:", "wss:"}

RECURSIVE StripSlashes(_)
StripSlashes(s) ==
  IF Len(s) > 0 /\ SubSeq(s, 1, 1) \in {"/", "\\"}
  THEN StripSlashes(SubSeq(s, 2, Len(s))) ELSE s

InvalidURL == [ok |-> FALSE, protocol |-> "", href |-> ""]

\* new URL(s) without a base, for strings without white space, credentials,
\* ports or upper-case hosts: ok is FALSE where the constructor throws.  The
\* scheme is lower-cased, a special scheme needs a host and gets the path
\* "/" when it has none
ParseURL(s) ==
  LET k == IndexOf(s, ":")
      scheme == SubSeq(s, 1, k - 1)
      protocol == ToLowerCase(scheme) \o ":"
      rest == SubSeq(s, k + 1, Len(s))
      tail == StripSlashes(rest)
  IN  IF k = 0 THEN InvalidURL
      ELSE IF ~IsScheme(scheme) THEN InvalidURL
      ELSE IF protocol = "file:"
        THEN [ok |-> TRUE, protocol |-> protocol, href |-> "file:///" \o tail]
      ELSE IF protocol \in SpecialProtocols
        THEN IF tail = "" THEN InvalidURL
             ELSE [ok |-> TRUE, protocol |-> protocol,
                   href |-> protocol \o "//" \o tail
                              \o (IF Includes(tail, "/") THEN "" ELSE "/")]
      ELSE [ok |-> TRUE, protocol |-> protocol, href |-> protocol \o rest]

\* ['http:', 'https:'].includes(urlObj.protocol)
IsHttpProtocol(protocol) == protocol \in {"http:", "https:"}

----------------------------------------------------------------------------
(* What callers send and what the browser, the network, the DOM parser,    *)
(* the rule engine and the store answer                                    *)

MaxRedirects == 2
MaxChunks == 2

\* req.body.url
UrlValues ==
  {Undefined, Str(""), Str("not-a-url"), Str("example.com/page"),
   Str("http://"), Str("http://example.com"), Str("HTTP://example.com/"),
   Str("https://example.com/page"), Str("ftp://example.com/file"),
   Str("file:///etc/passwd")}

\* req.body.htmlContent
HtmlValues ==
  {Undefined, Str(""), Str("   "), Str("hello"), Str("a < b"),
   Str("a > b < c"), Str("<p"), Str("<p>hi</p>")}

\* the Location header of a redirect
LocationValues ==
  {"https://example.com/next", "http://example.com/next",
   "ftp://example.com/file", "/login"}

Ok == [kind |-> "ok", message |-> ""]

\* what puppeteer.launch throws
LaunchErrors ==
  {[kind |-> "launch", message |-> "Failed to launch the browser process!"]}

\* what page.goto throws
NavigationErrors ==
  {[kind |-> "timeout", message |-> "Navigation timeout of 30000 ms exceeded"],
   [kind |-> "dns", message |-> "net::ERR_NAME_NOT_RESOLVED at https://example.com/"],
   [kind |-> "refused", message |-> "net::ERR_CONNECTION_REFUSED at https://example.com/"]}

\* what the global fetch rejects with: a TypeError whose message does not
\* name its cause
FetchErrors ==
  {[kind |-> "timeout", message |-> "fetch failed"],
   [kind |-> "dns", message |-> "fetch failed"],
   [kind |-> "refused", message |-> "fetch failed"]}

\* err.code of the 'error' event of an http request
ErrorCodes == {"ENOTFOUND", "ECONNREFUSED", "ETIMEDOUT", "ECONNRESET"}

\* what new JSDOM throws
DomErrors == {[kind |-> "dom", message |-> "Invalid DOM"]}

\* what the rule engine throws
EngineErrors ==
  {[kind |-> "engine",
    message |-> "No elements found for include in page Context"]}

\* the status lines of upstream responses
StatusCodes == {200, 301, 404, 500}
StatusLine(status) ==
  CASE status = 200 -> "HTTP 200: OK"
    [] status = 301 -> "HTTP 301: Moved Permanently"
    [] status = 404 -> "HTTP 404: Not Found"
    [] OTHER -> "HTTP 500: Internal Server Error"

\* data.length > 10 * 1024 * 1024
ResponseCap == 10 * 1024 * 1024

\* the sizes of the chunks of a body, and of whole bodies
ChunkSizes == {1, ResponseCap}
BodySizes == {0, 1, ResponseCap, ResponseCap + 1}

\* the findings the rule engine returns to a handler
EngineFindings == {ExampleFindings, Findings(<<>>, <<>>, <<>>)}

\* a call a handler makes: op is "launch", "goto", "get", "fetch", "jsdom",
\* "axe", "save" or "close"; url is the URL navigated to or requested, size
\* the length of the markup handed to the DOM parser, tags the argument of
\* withTags (empty when the engine runs unrestricted)
Call(op, url, size, tags) == [op |-> op, url |-> url, size |-> size, tags |-> tags]

----------------------------------------------------------------------------
(* The route handlers                                                      *)

UsesBrowser == variant \in {"server_a", "server_b"}

\* the catch block of POST /api/analyze-url, from error.message
urlErrorMessage(message) ==
  CASE variant = "server_a" ->
         "Failed to analyze URL. Please check if the URL is accessible and try again."
    [] variant = "server_b" ->
         "Failed to analyze URL. " \o
         (IF Includes(message, "Page/Frame is not ready")
            THEN "The page could not be loaded properly."
          ELSE IF Includes(message, "timeout")
            THEN "The page took too long to load."
          ELSE IF Includes(message, "net::ERR_")
            THEN "Network error occurred."
          ELSE IF Includes(message, "Navigation timeout")
            THEN "The website took too long to respond."
          ELSE "Please check if the URL is accessible and try again.")
    [] variant = "part_a" ->
         "Failed to analyze URL. " \o
         (IF Includes(message, "ENOTFOUND")
            THEN "Website not found. Please check if the URL is correct and accessible."
          ELSE IF Includes(message, "timeout")
            THEN "The website took too long to respond. Please try again later."
          ELSE IF Includes(message, "HTTP 4")
            THEN "The page could not be found (404) or is not accessible."
          ELSE IF Includes(message, "HTTP 5")
            THEN "The website is experiencing server issues. Please try again later."
          ELSE IF Includes(message, "ECONNREFUSED")
            THEN "Connection refused. The website may be down or blocking requests."
          ELSE IF message # "" THEN message
          ELSE "Please check if the URL is accessible and try again.")
    [] OTHER ->
         IF Includes(message, "timeout")
           THEN "The website took too long to respond. Please try again."
         ELSE IF Includes(message, "HTTP")
           THEN "Could not access the website (" \o message \o "). Please check the URL."
         ELSE IF Includes(message, "fetch")
           THEN "Network error: Could not connect to the website."
         ELSE "Failed to analyze URL. Please check if the URL is accessible and try again."

\* the catch block of POST /api/analyze-html
htmlErrorMessage ==
  "Failed to analyze HTML content. Please check your HTML and try again."

\* the outer catch block of the route of the request
CatchReply(message) ==
  IF req.endpoint = "analyze-url"
  THEN ErrorReply(500, urlErrorMessage(message))
  ELSE ErrorReply(500, htmlErrorMessage)

\* the response to a failed puppeteer.launch
LaunchFailureReply(e) ==
  IF variant = "server_a"
  THEN ErrorReply(500, "Failed to initialize browser for analysis")
  ELSE CatchReply(e.message)

\* the response to a failed page.goto
NavigationFailureReply(e) ==
  IF variant = "server_a"
  THEN ErrorReply(400, "Failed to load the URL. Please check if the website is accessible and try again.")
  ELSE CatchReply(e.message)

\* the response to a failed new JSDOM
DomFailureReply(e) ==
  IF variant = "server_a"
  THEN ErrorReply(400, "Invalid HTML content. Please check your HTML syntax.")
  ELSE CatchReply(e.message)

\* the response to a failed run of the rule engine
EngineFailureReply(e) ==
  IF variant = "server_a"
  THEN IF req.endpoint = "analyze-url"
       THEN ErrorReply(500, "Failed to perform accessibility analysis on the page")
       ELSE ErrorReply(500, "Failed to perform accessibility analysis on the HTML content")
  ELSE CatchReply(e.message)

\* the URL the handler navigates to or fetches, and reports as input:
\* validUrl.href in server.js:393,420, the url of the body elsewhere
Target == IF variant = "server_a" THEN ParseURL(req.body.v).href ELSE req.body.v

\* browser.close() where a browser was launched (server.js:398,410,417,448,
\* 1028)
CloseBrowser(cs) ==
  IF UsesBrowser /\ req.endpoint = "analyze-url"
  THEN Append(cs, Call("close", "", 0, <<>>)) ELSE cs

\* res.status(...).json(...) after n calls were made: the response is
\* recorded in `sent`, and the caller sees the first response only
Send(reply, n) ==
  /\ res' = (IF sent = <<>> THEN reply ELSE res)
  /\ sent' = Append(sent, [status |-> reply.status, after |-> n])

\* mutant: the catch blocks respond and leave the browser open
ThrowUnclosed(reply, cs) ==
  /\ calls' = cs
  /\ Send(reply, Len(cs))
  /\ pc' = "done"

\* the handler leaves through its catch blocks with the calls cs made: the
\* catch of server.js:445-458 closes the browser and then responds, the
\* catch of server.js:1010-1024 responds and the finally block of 1025-1033
\* closes the browser afterwards; the other handlers have no browser
Throw(reply, cs) ==
  /\ calls' = CloseBrowser(cs)
  /\ Send(reply, IF variant = "server_b" THEN Len(cs) ELSE Len(CloseBrowser(cs)))
  /\ pc' = "done"

\* what browser.close() and page.close() throw
CloseErrors ==
  {[kind |-> "close", message |-> "Protocol error (Target.closeTarget): Target closed."]}

\* what browser.newPage(), page.setUserAgent() and page.setViewport() throw
PageErrors ==
  {[kind |-> "setup", message |-> "Protocol error (Target.createTarget): Target closed."]}

\* an inner catch block of server.js:397-415: await browser.close(), which
\* may throw into the outer catch block, then return res.status(...)
CloseAndReply(reply, cs) ==
  \E e \in {Ok} \cup CloseErrors :
    IF e.kind = "ok"
    THEN /\ calls' = CloseBrowser(cs)
         /\ Send(reply, Len(CloseBrowser(cs)))
         /\ pc' = "done"
    ELSE Throw(CatchReply(e.message), CloseBrowser(cs))

\* a request arrives at POST /api/analyze-url or POST /api/analyze-html
InitServer ==
  /\ variant \in Variants
  /\ axeResults = Findings(<<>>, <<>>, <<>>)
  /\ type = ""
  /\ input = ""
  /\ now = 0
  /\ dbConnected = FALSE
  /\ reports = <<>>
  /\ mongodbUri \in BOOLEAN
  /\ Analysis = AnalysisAtLoad
  /\ \/ req \in {[endpoint |-> "analyze-url", body |-> u] : u \in UrlValues}
     \/ req \in {[endpoint |-> "analyze-html", body |-> h] : h \in HtmlValues}
  /\ pc = "received"
  /\ res = NoResponse
  /\ calls = <<>>
  /\ fetch = NoFetch
  /\ failure = NoFailure
  /\ sent = <<>>
  /\ globals = 0
  /\ jobs = <<>>

\* mutant: a url that does not parse is let through
UrlDefectUnparsed(url) ==
  IF ~Truthy(url) THEN "URL is required"
  ELSE IF /\ variant \in {"server_b", "part_a"}
          /\ ParseURL(url.v).ok
          /\ ~IsHttpProtocol(ParseURL(url.v).protocol)
    THEN "URL must use HTTP or HTTPS protocol"
  ELSE ""

\* the error POST /api/analyze-url returns with before it makes any call,
\* "" when it goes on: !url, new URL(url) and, in server.js:928 and
\* part_000:392, the protocol test
UrlDefect(url) ==
  IF ~Truthy(url) THEN "URL is required"
  ELSE IF ~ParseURL(url.v).ok THEN "Invalid URL format"
  ELSE IF /\ variant \in {"server_b", "part_a"}
          /\ ~IsHttpProtocol(ParseURL(url.v).protocol)
    THEN "URL must use HTTP or HTTPS protocol"
  ELSE ""

\* POST /api/analyze-url up to the first call it makes
ValidateUrl ==
  /\ pc = "received"
  /\ req.endpoint = "analyze-url"
  /\ IF UrlDefect(req.body) # ""
     THEN /\ Send(ErrorReply(400, UrlDefect(req.body)), 0)
          /\ pc' = "done"
     ELSE /\ UNCHANGED <<res, sent>>
          /\ pc' = CASE UsesBrowser -> "launch"
                     [] variant = "part_a" -> "request"
                     [] OTHER -> "fetch"
  /\ UNCHANGED <<variant, axeResults, input, type, now, dbConnected, reports,
                 mongodbUri, Analysis, req, calls, fetch, failure,
                 globals, jobs>>

\* POST /api/analyze-html up to new JSDOM: !htmlContent, then the test of
\* each revision (none in part_000:1091-1101)
ValidateHtml ==
  /\ pc = "received"
  /\ req.endpoint = "analyze-html"
  /\ LET htmlContent == req.body
     IN  IF ~Truthy(htmlContent)
         THEN /\ Send(ErrorReply(400, "HTML content is required"), 0)
              /\ pc' = "done"
              /\ fetch' = fetch
         ELSE IF variant = "server_a" /\ Len(Trim(htmlContent.v)) = 0
         THEN /\ Send(ErrorReply(400, "HTML content must be a non-empty string"), 0)
              /\ pc' = "done"
              /\ fetch' = fetch
         ELSE IF /\ variant \in {"server_b", "part_a"}
                 /\ (~Includes(htmlContent.v, "<") \/ ~Includes(htmlContent.v, ">"))
         THEN /\ Send(ErrorReply(400, "Please provide valid HTML content"), 0)
              /\ pc' = "done"
              /\ fetch' = fetch
         ELSE /\ UNCHANGED <<res, sent>>
              /\ fetch' = [NoFetch EXCEPT !.data = Len(htmlContent.v)]
              /\ pc' = "dom"
  /\ UNCHANGED <<variant, axeResults, input, type, now, dbConnected, reports,
                 mongodbUri, Analysis, req, calls, failure, globals, jobs>>

\* browser = await puppeteer.launch(...)
LaunchBrowser ==
  /\ pc = "launch"
  /\ \E e \in {Ok} \cup LaunchErrors :
       IF e.kind = "ok"
       THEN /\ calls' = Append(calls, Call("launch", "", 0, <<>>))
            /\ pc' = "page"
            /\ UNCHANGED <<res, sent>>
            /\ UNCHANGED failure
       ELSE /\ calls' = calls
            /\ failure' = [stage |-> "launch", kind |-> e.kind]
            /\ Send(LaunchFailureReply(e), Len(calls))
            /\ pc' = "done"
  /\ UNCHANGED <<variant, axeResults, input, type, now, dbConnected, reports,
                 mongodbUri, Analysis, req, fetch, globals, jobs>>

\* const page = await browser.newPage(); await page.setUserAgent(...);
\* await page.setViewport(...)
NewPage ==
  /\ pc = "page"
  /\ \E e \in {Ok} \cup PageErrors :
       IF e.kind = "ok"
       THEN /\ calls' = Append(calls, Call("newPage", "", 0, <<>>))
            /\ pc' = "goto"
            /\ UNCHANGED <<res, sent>>
            /\ UNCHANGED failure
       ELSE /\ failure' = [stage |-> "setup", kind |-> e.kind]
            /\ Throw(CatchReply(e.message), Append(calls, Call("newPage", "", 0, <<>>)))
  /\ UNCHANGED <<variant, axeResults, input, type, now, dbConnected, reports,
                 mongodbUri, Analysis, req, fetch, globals, jobs>>

\* mutant: the catch block around page.goto responds and does not return
AfterNavigationFailureFallThrough == "engine"

\* the statement the handler is at after it answered a failed page.goto:
\* every response of a catch block is returned or ends the handler
AfterNavigationFailure == "done"

\* await page.goto(...)
Goto ==
  /\ pc = "goto"
  /\ \E e \in {Ok} \cup NavigationErrors :
       IF e.kind = "ok"
       THEN /\ calls' = Append(calls, Call("goto", Target, 0, <<>>))
            /\ pc' = "engine"
            /\ UNCHANGED <<res, sent>>
            /\ UNCHANGED failure
       ELSE /\ failure' = [stage |-> "navigation", kind |-> e.kind]
            /\ IF variant = "server_a"
               THEN \E c \in {Ok} \cup CloseErrors :
                      LET cs == CloseBrowser(Append(calls, Call("goto", Target, 0, <<>>)))
                      IN  IF c.kind = "ok"
                          THEN /\ calls' = cs
                               /\ Send(NavigationFailureReply(e), Len(cs))
                               /\ pc' = AfterNavigationFailure
                          ELSE Throw(CatchReply(c.message), cs)
               ELSE Throw(NavigationFailureReply(e),
                          Append(calls, Call("goto", Target, 0, <<>>)))
  /\ UNCHANGED <<variant, axeResults, input, type, now, dbConnected, reports,
                 mongodbUri, Analysis, req, fetch, globals, jobs>>

\* the message client.get(url) throws with, "" when it sends the request:
\* the client is https when url.startsWith('https:') and http otherwise,
\* and refuses a URL that does not parse or has another protocol
GetRejection(url) ==
  LET expected == IF StartsWith(url, "https:") THEN "https:" ELSE "http:"
      urlObj == ParseURL(url)
  IN  IF ~urlObj.ok THEN "Invalid URL"
      ELSE IF urlObj.protocol # expected
        THEN "Protocol \"" \o urlObj.protocol \o "\" not supported. Expected \""
               \o expected \o "\""
      ELSE ""

\* fetchHtmlFromUrl(url) up to client.get: the request is sent, or the
\* promise is rejected with what client.get threw
Request(f, url) ==
  IF GetRejection(url) = ""
  THEN [f EXCEPT !.phase = "requesting", !.url = url]
  ELSE [f EXCEPT !.phase = "closed", !.url = url,
                 !.promise = PromiseReject(f.promise, GetRejection(url))]

\* const htmlContent = await fetchHtmlFromUrl(url): the call
StartFetch ==
  /\ pc = "request"
  /\ fetch' = Request(NoFetch, Target)
  /\ calls' = Append(calls, Call("get", Target, 0, <<>>))
  /\ failure' = IF GetRejection(Target) = "" THEN failure
                ELSE [stage |-> "fetch", kind |-> "protocol"]
  /\ pc' = "await"
  /\ UNCHANGED <<variant, axeResults, input, type, now, dbConnected, reports,
                 mongodbUri, Analysis, req, res, sent, globals, jobs>>

\* the response callback of client.get: a redirect with a Location header is
\* followed by fetchHtmlFromUrl(res.headers.location), another status than
\* 200 rejects, 200 starts the transfer of the body
FetchResponse ==
  /\ fetch.phase = "requesting"
  /\ \E status \in StatusCodes, location \in LocationValues \cup {""} :
       IF status >= 300 /\ status < 400 /\ location # ""
       THEN /\ fetch.hops < MaxRedirects
            /\ fetch' = [Request(fetch, location) EXCEPT !.hops = @ + 1]
            /\ calls' = Append(calls, Call("get", location, 0, <<>>))
            /\ failure' = IF GetRejection(location) = "" THEN failure
                          ELSE [stage |-> "fetch", kind |-> "protocol"]
       ELSE IF status # 200
       THEN /\ fetch' = [fetch EXCEPT !.phase = "closed",
                           !.promise = PromiseReject(@, StatusLine(status))]
            /\ failure' = [stage |-> "fetch", kind |-> "status"]
            /\ calls' = calls
       ELSE /\ location = ""
            /\ fetch' = [fetch EXCEPT !.phase = "streaming"]
            /\ UNCHANGED <<failure, calls>>
  /\ UNCHANGED <<variant, axeResults, input, type, now, dbConnected, reports,
                 mongodbUri, Analysis, req, pc, res, sent, globals, jobs>>

\* res.on('data'): the chunk is appended, and a body over the cap destroys
\* the request and rejects
FetchData ==
  /\ fetch.phase = "streaming"
  /\ fetch.chunks < MaxChunks
  /\ \E chunk \in ChunkSizes :
       LET data == fetch.data + chunk
       IN  IF data > ResponseCap
           THEN /\ fetch' = [fetch EXCEPT !.data = data, !.chunks = @ + 1,
                               !.phase = "destroyed",
                               !.promise = PromiseReject(@, "Response too large")]
                /\ failure' = [stage |-> "fetch", kind |-> "too-large"]
           ELSE /\ fetch' = [fetch EXCEPT !.data = data, !.chunks = @ + 1]
                /\ failure' = failure
  /\ UNCHANGED <<variant, axeResults, input, type, now, dbConnected, reports,
                 mongodbUri, Analysis, req, pc, res, calls,
                 sent, globals, jobs>>

\* res.on('end'): resolve(data)
FetchEnd ==
  /\ fetch.phase = "streaming"
  /\ fetch' = [fetch EXCEPT !.phase = "closed",
                 !.promise = PromiseResolve(@, fetch.data)]
  /\ UNCHANGED <<variant, axeResults, input, type, now, dbConnected, reports,
                 mongodbUri, Analysis, req, pc, res, calls, failure,
                 sent, globals, jobs>>

\* req.on('timeout'): the request is destroyed and the promise rejected
FetchTimeout ==
  /\ fetch.phase \in {"requesting", "streaming"}
  /\ fetch' = [fetch EXCEPT !.phase = "destroyed",
                 !.promise = PromiseReject(@,
                   "Request timeout - the website took too long to respond")]
  /\ failure' = [stage |-> "fetch", kind |-> "timeout"]
  /\ UNCHANGED <<variant, axeResults, input, type, now, dbConnected, reports,
                 mongodbUri, Analysis, req, pc, res, calls,
                 sent, globals, jobs>>

\* the message req.on('error') rejects with
RequestErrorMessage(code) ==
  CASE code = "ENOTFOUND" -> "Website not found - please check the URL"
    [] code = "ECONNREFUSED" -> "Connection refused - the website is not accessible"
    [] code = "ETIMEDOUT" -> "Connection timeout - the website took too long to respond"
    [] OTHER -> "Network error: socket hang up"

\* the kind of failure an error code stands for
RequestErrorKind(code) ==
  CASE code = "ENOTFOUND" -> "dns"
    [] code = "ECONNREFUSED" -> "refused"
    [] code = "ETIMEDOUT" -> "timeout"
    [] OTHER -> "network"

\* req.on('error'): emitted once, while the request is in flight or after it
\* was destroyed (then with ECONNRESET)
FetchError ==
  /\ fetch.phase \in {"requesting", "streaming", "destroyed"}
  /\ \E code \in ErrorCodes :
       /\ fetch.phase = "destroyed" => code = "ECONNRESET"
       /\ fetch' = [fetch EXCEPT !.phase = "closed",
                      !.promise = PromiseReject(@, RequestErrorMessage(code))]
       /\ failure' = IF fetch.promise.state = "pending"
                     THEN [stage |-> "fetch", kind |-> RequestErrorKind(code)]
                     ELSE failure
  /\ UNCHANGED <<variant, axeResults, input, type, now, dbConnected, reports,
                 mongodbUri, Analysis, req, pc, res, calls,
                 sent, globals, jobs>>

\* const htmlContent = await fetchHtmlFromUrl(url): the handler resumes with
\* the body, or in its catch block
AwaitFetch ==
  /\ pc = "await"
  /\ fetch.promise.state # "pending"
  /\ IF fetch.promise.state = "resolved"
     THEN pc' = "dom" /\ UNCHANGED <<res, sent>>
     ELSE pc' = "done" /\ Send(CatchReply(fetch.promise.reason), Len(calls))
  /\ UNCHANGED <<variant, axeResults, input, type, now, dbConnected, reports,
                 mongodbUri, Analysis, req, calls, fetch, failure,
                 globals, jobs>>

\* const response = await fetch(url, ...); if (!response.ok) throw ...;
\* const html = await response.text()
Fetch ==
  /\ pc = "fetch"
  /\ calls' = Append(calls, Call("fetch", Target, 0, <<>>))
  /\ \/ \E e \in FetchErrors :
          /\ fetch' = [NoFetch EXCEPT !.phase = "closed", !.url = Target,
                         !.promise = PromiseReject(@, e.message)]
          /\ failure' = [stage |-> "fetch",
                         kind |-> IF IsHttpProtocol(ParseURL(Target).protocol)
                                  THEN e.kind ELSE "protocol"]
          /\ Send(CatchReply(e.message), Len(calls) + 1)
          /\ pc' = "done"
     \/ \E status \in StatusCodes \ {200, 301} :
          /\ IsHttpProtocol(ParseURL(Target).protocol)
          /\ fetch' = [NoFetch EXCEPT !.phase = "closed", !.url = Target,
                         !.promise = PromiseReject(@, StatusLine(status))]
          /\ failure' = [stage |-> "fetch", kind |-> "status"]
          /\ Send(CatchReply(StatusLine(status)), Len(calls) + 1)
          /\ pc' = "done"
     \/ \E size \in BodySizes :
          /\ IsHttpProtocol(ParseURL(Target).protocol)
          /\ fetch' = [NoFetch EXCEPT !.phase = "closed", !.url = Target,
                         !.data = size, !.promise = PromiseResolve(@, size)]
          /\ failure' = failure
          /\ UNCHANGED <<res, sent>>
          /\ pc' = "dom"
  /\ UNCHANGED <<variant, axeResults, input, type, now, dbConnected, reports,
                 mongodbUri, Analysis, req, globals, jobs>>

\* the markup the handler hands to the DOM parser: the body fetched, or
\* htmlContent
Markup == IF req.endpoint = "analyze-url" THEN fetch.promise.value ELSE fetch.data

\* const dom = new JSDOM(...); global.window = window;
\* global.document = window.document; and the call of axeCore.run
BuildDom ==
  /\ pc = "dom"
  /\ \E e \in {Ok} \cup DomErrors :
       IF e.kind = "ok"
       THEN /\ calls' = Append(calls, Call("jsdom", "", Markup, <<>>))
            /\ globals' = 1
            /\ pc' = "engine"
            /\ UNCHANGED <<res, sent>>
            /\ UNCHANGED failure
       ELSE /\ failure' = [stage |-> "dom", kind |-> e.kind]
            /\ globals' = globals
            /\ Throw(DomFailureReply(e), Append(calls, Call("jsdom", "", Markup, <<>>)))
  /\ UNCHANGED <<variant, axeResults, input, type, now, dbConnected, reports,
                 mongodbUri, Analysis, req, fetch, jobs>>

\* the tags the rule engine is restricted to: withTags in server.js:984,
\* none elsewhere
EngineTags ==
  IF variant = "server_b" /\ req.endpoint = "analyze-url"
  THEN <<"wcag2a", "wcag2aa", "wcag21aa">> ELSE <<>>

\* findings mapAxeResults throws on: a violation without tags
MalformedFindings ==
  Findings(<<[id |-> "rule", impact |-> Str("minor")]>>, <<>>, <<>>)

\* violation.tags.find(...) throws a TypeError
Malformed(results) ==
  \E k \in 1..Len(results.violations) : "tags" \notin DOMAIN results.violations[k]

\* global.window and global.document after axeCore.run threw: deleted in
\* the catch block of server.js:503-506, left bound elsewhere
GlobalsAfterEngineFailure == IF variant = "server_a" THEN 0 ELSE globals

\* results = await new AxePuppeteer(page)...analyze() or
\* await axeCore.run(window.document), up to the call of mapAxeResults:
\* delete global.window; delete global.document where they were set, and
\* await browser.close() in server.js:417
RunEngine ==
  /\ pc = "engine"
  /\ \E e \in {Ok} \cup EngineErrors :
       LET cs == Append(calls, Call("axe", "", 0, EngineTags))
       IN  IF e.kind = "ok"
           THEN /\ axeResults' \in EngineFindings \cup {MalformedFindings}
                /\ globals' = 0
                /\ IF variant = "server_a" /\ req.endpoint = "analyze-url"
                   THEN \E c \in {Ok} \cup CloseErrors :
                          IF c.kind = "ok"
                          THEN /\ calls' = CloseBrowser(cs)
                               /\ pc' = "map"
                               /\ UNCHANGED <<res, sent>>
                               /\ UNCHANGED failure
                          ELSE /\ failure' = [stage |-> "close", kind |-> c.kind]
                               /\ Throw(CatchReply(c.message), CloseBrowser(cs))
                   ELSE /\ calls' = cs
                        /\ pc' = "map"
                        /\ UNCHANGED <<res, sent>>
                        /\ UNCHANGED failure
           ELSE /\ axeResults' = axeResults
                /\ globals' = (IF UsesBrowser /\ req.endpoint = "analyze-url"
                                THEN globals ELSE GlobalsAfterEngineFailure)
                /\ failure' = [stage |-> "engine", kind |-> e.kind]
                /\ IF variant = "server_a" /\ req.endpoint = "analyze-url"
                   THEN CloseAndReply(EngineFailureReply(e), cs)
                   ELSE Throw(EngineFailureReply(e), cs)
  /\ UNCHANGED <<variant, input, type, now, dbConnected, reports,
                 mongodbUri, Analysis, req, fetch, jobs>>

\* const mappedResults = mapAxeResults(results, ..., 'url' or 'html'), which
\* throws on malformed findings, and the test dbConnected && Analysis
MapResults ==
  /\ pc = "map"
  /\ IF Malformed(axeResults)
     THEN /\ failure' = [stage |-> "map", kind |-> "map"]
          /\ Throw(CatchReply("Cannot read properties of undefined (reading 'find')"),
                   calls)
          /\ UNCHANGED <<type, input, reports>>
     ELSE /\ type' = (IF req.endpoint = "analyze-url" THEN "url" ELSE "html")
          /\ input' = (IF req.endpoint = "analyze-url" THEN Target ELSE req.body.v)
          /\ reports' = <<mapAxeResults(axeResults,
                             IF req.endpoint = "analyze-url" THEN Target ELSE req.body.v,
                             IF req.endpoint = "analyze-url" THEN "url" ELSE "html")>>
          /\ pc' = IF dbConnected /\ Analysis THEN "save" ELSE "respond"
          /\ UNCHANGED <<res, sent>>
          /\ UNCHANGED <<calls, failure>>
  /\ UNCHANGED <<variant, axeResults, now, dbConnected,
                 mongodbUri, Analysis, req, fetch, globals, jobs>>

\* const analysis = new Analysis({...}); and the call of analysis.save(),
\* which the handler awaits
StartSave ==
  /\ pc = "save"
  /\ calls' = Append(calls, Call("save", "", 0, <<>>))
  /\ pc' = "saving"
  /\ UNCHANGED <<res, sent>>
  /\ UNCHANGED <<variant, axeResults, input, type, now, dbConnected, reports,
                 mongodbUri, Analysis, req, fetch, failure, globals, jobs>>

\* mutant: a save that throws is answered from the outer catch block
SaveReplyRethrown(saved) ==
  IF saved THEN SuccessReply(reports[1]) ELSE CatchReply("save failed")

\* the response after await analysis.save() returned (saved) or threw into
\* the catch block around it, which only logs
SaveReply(saved) == SuccessReply(reports[1])

\* await analysis.save() returns or throws inside try/catch, then res.json
Save ==
  /\ pc = "saving"
  /\ \E saved \in BOOLEAN :
       /\ failure' = IF saved THEN failure ELSE [stage |-> "save", kind |-> "store"]
       /\ Send(SaveReply(saved), Len(calls))
  /\ calls' = calls
  /\ pc' = "done"
  /\ UNCHANGED <<variant, axeResults, input, type, now, dbConnected, reports,
                 mongodbUri, Analysis, req, fetch, globals, jobs>>

\* res.json({ success: true, data: mappedResults }) when nothing is saved;
\* in server.js:1006-1009 after await page.close(), which may throw into
\* the catch block, and before the finally block closes the browser
Respond ==
  /\ pc = "respond"
  /\ IF variant = "server_b" /\ req.endpoint = "analyze-url"
     THEN \E c \in {Ok} \cup CloseErrors :
            LET cs == Append(calls, Call("closePage", "", 0, <<>>))
            IN  IF c.kind = "ok"
                THEN /\ calls' = CloseBrowser(cs)
                     /\ Send(SuccessReply(reports[1]), Len(cs))
                     /\ pc' = "done"
                     /\ UNCHANGED failure
                ELSE /\ failure' = [stage |-> "close", kind |-> c.kind]
                     /\ Throw(CatchReply(c.message), cs)
     ELSE /\ calls' = calls
          /\ Send(SuccessReply(reports[1]), Len(calls))
          /\ pc' = "done"
          /\ UNCHANGED failure
  /\ UNCHANGED <<variant, axeResults, input, type, now, dbConnected, reports,
                 mongodbUri, Analysis, req, fetch, globals, jobs>>

NextServer ==
  \/ ValidateUrl \/ ValidateHtml
  \/ LaunchBrowser \/ NewPage \/ Goto
  \/ StartFetch \/ FetchResponse \/ FetchData \/ FetchEnd \/ FetchTimeout
  \/ FetchError \/ AwaitFetch
  \/ Fetch
  \/ BuildDom \/ RunEngine \/ MapResults \/ StartSave \/ Save \/ Respond
  \/ MongoConnected

SpecServer == InitServer /\ [][NextServer]_vars

----------------------------------------------------------------------------
(* Requests under fair scheduling                                          *)

\* the response callback of client.get after MaxRedirects redirects: a
\* further redirect is followed like the ones before it, since
\* fetchHtmlFromUrl counts none of them (part_000:93-96).  The log of calls
\* and the count of hops stop at the bound
FollowRedirect ==
  /\ fetch.phase = "requesting"
  /\ fetch.hops = MaxRedirects
  /\ \E location \in LocationValues :
       /\ GetRejection(location) = ""
       /\ fetch' = Request(fetch, location)
  /\ UNCHANGED <<variant, axeResults, input, type, now, dbConnected, reports,
                 mongodbUri, Analysis, req, pc, res, calls, failure,
                 sent, globals, jobs>>

\* the statements of the handler that follow an await: the event loop
\* resumes a handler that can go on
HandlerStep ==
  \/ ValidateUrl \/ ValidateHtml
  \/ LaunchBrowser \/ NewPage \/ Goto
  \/ StartFetch \/ AwaitFetch \/ Fetch
  \/ BuildDom \/ RunEngine \/ StartSave \/ Save \/ Respond

\* what the remote server and the socket do: every request a remote server
\* received is answered, every body it started ends
NetworkEvent ==
  \/ FetchResponse \/ FollowRedirect \/ FetchData \/ FetchEnd \/ FetchError

NextLive ==
  HandlerStep \/ MapResults \/ NetworkEvent \/ FetchTimeout \/ MongoConnected

\* the handlers and the network are scheduled fairly, and the synchronous
\* call of mapAxeResults returns; a socket timeout may or may not fire
SpecServerLive ==
  /\ InitServer
  /\ [][NextLive]_vars
  /\ WF_vars(HandlerStep)
  /\ WF_vars(NetworkEvent)
  /\ []<>(pc # "map")

----------------------------------------------------------------------------
(* Properties                                                              *)

RECURSIVE SumField(_, _)
\* the sum of the values a list of records holds in field f
SumField(list, f) ==
  IF Len(list) = 0 THEN 0 ELSE Head(list)[f] + SumField(Tail(list), f)

Abs(z) == IF z < 0 THEN -z ELSE z

NumViolations == Len(axeResults.violations)
NumPasses == Len(axeResults.passes)
NumIncomplete == Len(axeResults.incomplete)
NumChecks == NumViolations + NumPasses + NumIncomplete

\* round(100 * (p + 0.5 * i) / (v + p + i)) in exact arithmetic, a half
\* going up
ExactComplianceScore ==
  IF NumChecks = 0 THEN 100
  ELSE (100 * (2 * NumPasses + NumIncomplete) + NumChecks) \div (2 * NumChecks)

\* C1: the compliance score of every report is the exactly rounded share
\* round(100 * (p + 0.5 * i) / (v + p + i)), halves rounded up, and 100 when
\* there are no checks.
C1_ComplianceScoreIsRoundedShare ==
  \A k \in 1..Len(reports) : reports[k].complianceScore = ExactComplianceScore

\* C2: both scores of every report are integers from 0 to 100.
C2_ScoresWithinRange ==
  \A k \in 1..Len(reports) :
    /\ reports[k].complianceScore \in 0..100
    /\ reports[k].accessibilityImpactScore \in 0..100

\* the weighted sum the impact score caps
RawImpact ==
  15 * CountImpact(axeResults.violations, "critical")
    + 8 * CountImpact(axeResults.violations, "serious")
    + 2 * NumViolations

\* C2 witness: a report at both ends of the range, its impact score capped
C2_Witness ==
  /\ reports # <<>>
  /\ RawImpact > 100
  /\ reports[1].accessibilityImpactScore = 100
  /\ reports[1].complianceScore = 0

\* C3: the counts of the severity breakdown of every report sum to its
\* totalIssues.
C3_SeverityCountsSumToTotal ==
  \A k \in 1..Len(reports) :
    SumField(reports[k].severityBreakdown, "count") = reports[k].totalIssues

\* C4: the four percentages of the issue distribution sum to 100 give or
\* take 2 when there are violations, and are all 0 when there are none.
C4_DistributionSumsTo100 ==
  \A k \in 1..Len(reports) :
    LET dist == reports[k].issueDistribution
    IN  /\ Len(dist) = 4
        /\ reports[k].totalIssues > 0 =>
             Abs(SumField(dist, "value") - 100) <= 2
        /\ reports[k].totalIssues = 0 =>
             \A j \in 1..Len(dist) : dist[j].value = 0

\* C4 witness: a report whose four percentages sum to 102
C4_Witness ==
  /\ reports # <<>>
  /\ reports[1].totalIssues > 0
  /\ \A j \in 1..4 : reports[1].issueDistribution[j].value > 0
  /\ SumField(reports[1].issueDistribution, "value") = 102

\* a report without its timestamp
Untimed(report) == [report EXCEPT !.timestamp = 0]

\* C5: the reports mapAxeResults returns for the same findings, input and
\* type agree in everything but the timestamp, whatever the clock and
\* dbConnected did in between.
C5_SameFindingsSameReport ==
  \A j \in 1..Len(reports) : \A k \in 1..Len(reports) :
    Untimed(reports[j]) = Untimed(reports[k])

\* C5 witness: two reports built at different times, the store connected
\* meanwhile, for findings with a violation
C5_Witness ==
  /\ Len(reports) >= 2
  /\ reports[1].timestamp # reports[2].timestamp
  /\ dbConnected
  /\ reports[2].totalIssues > 0

\* the severity a label names, whatever its case
SeverityKind(label) == ToLowerCase(label)

\* the (severity, count) pairs of a breakdown, in order
KindCounts(breakdown) ==
  [k \in 1..Len(breakdown) |-> <<SeverityKind(breakdown[k].name), breakdown[k].count>>]

C7_ImpactScoreFormula ==
  \A k \in 1..Len(reports) :
    reports[k].accessibilityImpactScore = (IF RawImpact > 100 THEN 100 ELSE RawImpact)

\* C7 witness: critical, serious and other violations whose weighted sum
\* exceeds the cap
C7_Witness ==
  /\ reports # <<>>
  /\ CountImpact(axeResults.violations, "critical") > 0
  /\ CountImpact(axeResults.violations, "serious") > 0
  /\ CountImpact(axeResults.violations, "minor") > 0
  /\ RawImpact > 100
  /\ reports[1].accessibilityImpactScore = 100

FourImpacts == {"critical", "serious", "moderate", "minor"}

\* C8: mapSeverity gives each of the four impacts its own label, gives
\* every other impact, an absent one too, the moderate label, and gives
\* nothing but the four labels.  Read in the code's favour: an impact that
\* differs from one of the four in letter case only may get either that
\* severity's label or the moderate one.
C8_MapSeverityDefaultsToModerate ==
  \A k \in 1..Len(reports) : \A j \in 1..Len(axeResults.violations) :
    LET impact == axeResults.violations[j].impact
        severity == reports[k].violations[j].severity
    IN  /\ severity.t = "string"
        /\ SeverityKind(severity.v) \in FourImpacts
        /\ (impact.t = "string" /\ impact.v \in FourImpacts)
             => SeverityKind(severity.v) = impact.v
        /\ (impact.t # "string" \/ ToLowerCase(impact.v) \notin FourImpacts)
             => SeverityKind(severity.v) = "moderate"

\* the reference C9 describes: the first tag holding "wcag", without its
\* first "wcag"; N/A when there is no such tag or nothing is left of it
DescribedReference(tags) ==
  LET holders == {j \in 1..Len(tags) : Includes(tags[j], "wcag")}
  IN  IF holders = {} THEN "N/A"
      ELSE LET j == CHOOSE h \in holders : \A g \in holders : h <= g
               tag == tags[j]
               at == CHOOSE q \in 1..Len(tag) :
                       /\ SubSeq(tag, q, q + 3) = "wcag"
                       /\ \A r \in 1..(q - 1) : SubSeq(tag, r, r + 3) # "wcag"
               rest == SubSeq(tag, 1, at - 1) \o SubSeq(tag, at + 4, Len(tag))
           IN  IF rest = "" THEN "N/A" ELSE rest

\* C9: the WCAG reference of every mapped violation, pass and incomplete
\* check comes from the first tag that contains "wcag", with "wcag" taken
\* out, and is N/A when no tag contains it or nothing is left.
C9_WcagReferenceFromFirstWcagTag ==
  \A k \in 1..Len(reports) :
    /\ \A j \in 1..Len(axeResults.violations) :
         reports[k].violations[j].wcagReference
           = "WCAG 2.1 SC " \o DescribedReference(axeResults.violations[j].tags)
    /\ \A j \in 1..Len(axeResults.passes) :
         reports[k].passes[j].wcagReference
           = "WCAG 2.1 SC " \o DescribedReference(axeResults.passes[j].tags)
    /\ \A j \in 1..Len(axeResults.incomplete) :
         reports[k].incomplete[j].wcagReference
           = "WCAG 2.1 SC " \o DescribedReference(axeResults.incomplete[j].tags)

\* C9 witness: a pass whose first tag has "wcag" inside it and whose second
\* tag starts with it
C9_Witness ==
  /\ reports # <<>>
  /\ Len(axeResults.passes) = 1
  /\ axeResults.passes[1].tags = <<"cat.wcag", "wcag2a">>
  /\ reports[1].passes[1].wcagReference = "WCAG 2.1 SC cat."

\* the level C10 describes: from the first tag holding both "wcag" and
\* "level", without them; A when there is no such tag or nothing is left
DescribedLevel(tags) ==
  LET holders == {j \in 1..Len(tags) :
                    Includes(tags[j], "wcag") /\ Includes(tags[j], "level")}
  IN  IF holders = {} THEN "A"
      ELSE LET j == CHOOSE h \in holders : \A g \in holders : h <= g
               rest == Replace(Replace(tags[j], "wcag", ""), "level", "")
           IN  IF rest = "" THEN "A" ELSE rest

\* C10: the WCAG level of every mapped violation comes only from a tag
\* that contains both "wcag" and "level", and is A when no tag does.
C10_WcagLevelNeedsBothSubstrings ==
  \A k \in 1..Len(reports) : \A j \in 1..Len(axeResults.violations) :
    reports[k].violations[j].wcagLevel
      = DescribedLevel(axeResults.violations[j].tags)

\* the bucket the precedence color or images, keyboard or navigation, forms,
\* aria, else Visual gives a tag list
DescribedBucket(tags) ==
  LET has(t) == \E k \in 1..Len(tags) : tags[k] = t
  IN  CASE has("cat.color") \/ has("cat.images") -> "Visual"
        [] ~(has("cat.color") \/ has("cat.images"))
             /\ (has("cat.keyboard") \/ has("cat.navigation")) -> "Navigation"
        [] ~(has("cat.color") \/ has("cat.images"))
             /\ ~(has("cat.keyboard") \/ has("cat.navigation"))
             /\ has("cat.forms") -> "Forms"
        [] ~(has("cat.color") \/ has("cat.images"))
             /\ ~(has("cat.keyboard") \/ has("cat.navigation"))
             /\ ~has("cat.forms") /\ has("cat.aria") -> "ARIA"
        [] OTHER -> "Visual"

\* the number of violations of the request the precedence puts in a bucket
DescribedCount(name) ==
  Cardinality({k \in 1..NumViolations :
                 DescribedBucket(axeResults.violations[k].tags) = name})

\* C11: calculateIssueDistribution counts every violation in exactly one of
\* Visual, Navigation, Forms, ARIA, the one the precedence over its category
\* tags gives (whatever the order and number of the tags), so the four
\* counts sum to the number of violations and the report's percentages are
\* the shares of these counts.
C11_OneBucketPerViolation ==
  LET categories == CountCategories(axeResults.violations,
                      [Visual |-> 0, Navigation |-> 0, Forms |-> 0, ARIA |-> 0])
  IN  /\ SumCounts(CategoryNames, categories) = NumViolations
      /\ \A k \in 1..Len(CategoryNames) :
            categories[CategoryNames[k]] = DescribedCount(CategoryNames[k])
      /\ \A r \in 1..Len(reports) : \A k \in 1..Len(CategoryNames) :
            /\ reports[r].issueDistribution[k].name = CategoryNames[k]
            /\ reports[r].issueDistribution[k].value =
                 IF NumViolations = 0 THEN 0
                 ELSE RoundPercent(DescribedCount(CategoryNames[k]), NumViolations)

\* a report for violations that list a lower-precedence category tag first,
\* and one without a category tag: all of them are counted, once
C11_Witness ==
  /\ reports # <<>>
  /\ NumViolations = 2
  /\ axeResults.violations[1].tags = <<"cat.aria", "cat.keyboard">>
  /\ axeResults.violations[2].tags = <<"cat.keyboard", "cat.aria">>
  /\ reports[1].issueDistribution[2].value = 100

----------------------------------------------------------------------------
(* Properties of the route handlers                                        *)

\* the calls of the request that launch a browser, navigate or fetch
NetworkCalls ==
  {k \in 1..Len(calls) : calls[k].op \in {"launch", "goto", "get", "fetch"}}

\* the url of an analyze-by-url request is missing or is no absolute URL
UrlMissingOrUnparsable ==
  /\ req.endpoint = "analyze-url"
  /\ (~Truthy(req.body) \/ ~ParseURL(req.body.v).ok)

\* C12: an analyze-by-url request whose url is missing or does not parse as
\* an absolute URL makes no browser launch, navigation or fetch, and the
\* only answer it gets is HTTP 400.
C12_InvalidUrlIs400 ==
  UrlMissingOrUnparsable =>
    /\ NetworkCalls = {}
    /\ pc \in {"received", "done"}
    /\ pc = "done" => res.status = 400 /\ ~res.success

\* "not-a-url" was answered with 400 and nothing was launched or fetched
C12_Witness ==
  /\ req.endpoint = "analyze-url"
  /\ req.body = Str("not-a-url")
  /\ pc = "done"
  /\ res = ErrorReply(400, "Invalid URL format")
  /\ calls = <<>>

\* the url of an analyze-by-url request is an absolute URL of a scheme other
\* than http and https
UrlOfOtherScheme ==
  /\ req.endpoint = "analyze-url"
  /\ Truthy(req.body)
  /\ ParseURL(req.body.v).ok
  /\ ParseURL(req.body.v).protocol \notin {"http:", "https:"}

\* C13: a request whose URL has a scheme other than http and https makes no
\* browser launch, navigation or fetch and is answered with HTTP 400 only,
\* and every URL a handler navigates to or requests, redirect targets
\* included, is an http or https URL.
C13_OnlyHttpReachesTheNetwork ==
  /\ UrlOfOtherScheme =>
       /\ NetworkCalls = {}
       /\ pc \in {"received", "done"}
       /\ pc = "done" => res.status = 400
  /\ \A k \in NetworkCalls :
       calls[k].op \in {"goto", "get", "fetch"} =>
         /\ ParseURL(calls[k].url).ok
         /\ ParseURL(calls[k].url).protocol \in {"http:", "https:"}

\* the markup of an analyze-by-html request is missing or holds no "<" or
\* no ">", so that it cannot contain a tag
MarkupWithoutTag ==
  /\ req.endpoint = "analyze-html"
  /\ \/ ~Truthy(req.body)
     \/ \A k \in 1..Len(req.body.v) : SubSeq(req.body.v, k, k) # "<"
     \/ \A k \in 1..Len(req.body.v) : SubSeq(req.body.v, k, k) # ">"

\* C14: an analyze-by-html request whose markup contains no tag is answered
\* with HTTP 400 before a DOM is built or the rule engine runs, and no
\* analyze-by-html request launches a browser, navigates or fetches.
C14_MarkupWithoutTagIs400 ==
  /\ MarkupWithoutTag =>
       /\ \A k \in 1..Len(calls) : calls[k].op \notin {"jsdom", "axe"}
       /\ pc \in {"received", "done"}
       /\ pc = "done" => res.status = 400
  /\ req.endpoint = "analyze-html" => NetworkCalls = {}

\* the acquisition of an analyze-by-url request failed (the browser did not
\* launch, the navigation or the fetch failed), and the request was answered
AcquisitionFailed ==
  /\ req.endpoint = "analyze-url"
  /\ failure.stage \in {"launch", "navigation", "fetch"}
  /\ pc = "done"

\* C15: an analyze-by-url request whose navigation or fetch timed out is
\* answered with HTTP 500 and a message saying that the page or website took
\* too long.  (The second revision of part_000 is left out: what its fetch
\* rejects with on a timeout is decided outside the source.)
C15_TimeoutIs500TookTooLong ==
  (AcquisitionFailed /\ failure.kind = "timeout" /\ variant # "part_b") =>
    /\ res.status = 500
    /\ Includes(res.error, "took too long")

\* C16: every acquisition failure of an analyze-by-url request (browser
\* launch, navigation timeout, DNS or connection failure, oversized body,
\* upstream status) is answered with HTTP 500, and a request is answered
\* with 400 only where its own url or markup was found missing or invalid.
C16_AcquisitionFailureIs500 ==
  /\ AcquisitionFailed => res.status = 500
  /\ (pc = "done" /\ res.status >= 400 /\ res.status < 500) =>
       /\ res.status = 400
       /\ failure.stage \in {"none", "dom"}

\* the messages the deployed revision answers the acquisition failures of an
\* analyze-by-url request with
AcquisitionMessages ==
  CASE UsesBrowser ->
         {LaunchFailureReply(e).error : e \in LaunchErrors}
           \cup {NavigationFailureReply(e).error : e \in NavigationErrors}
    [] variant = "part_a" ->
         {CatchReply(m).error :
            m \in {RequestErrorMessage(code) : code \in ErrorCodes}
                    \cup {StatusLine(status) : status \in StatusCodes \ {200}}
                    \cup {"Request timeout - the website took too long to respond",
                          "Response too large"}}
    [] OTHER ->
         {CatchReply(m).error :
            m \in {e.message : e \in FetchErrors}
                    \cup {StatusLine(status) : status \in StatusCodes \ {200}}}

\* C17: when the rule engine throws, the request is answered with HTTP 500,
\* never with a success response, and for an analyze-by-url request the
\* message is none of the messages acquisition failures are answered with.
C17_EngineFailureIsDistinct500 ==
  (failure.stage = "engine" /\ pc = "done") =>
    /\ res.status = 500
    /\ ~res.success
    /\ res.data = <<>>
    /\ req.endpoint = "analyze-url" => res.error \notin AcquisitionMessages

\* C18: when the analysis succeeded and saving the report threw, the request
\* is still answered with success and the report mapAxeResults computed,
\* the answer a successful save gets.
C18_FailedSaveStillSucceeds ==
  (failure.stage = "save" /\ pc = "done") =>
    /\ Len(reports) = 1
    /\ reports[1] = mapAxeResults(axeResults, input, type)
    /\ res = SuccessReply(reports[1])
    /\ res = SaveReply(TRUE)

\* a request whose analysis found violations, whose save threw, and which
\* was answered with the report
C18_Witness ==
  /\ failure.stage = "save"
  /\ pc = "done"
  /\ calls[Len(calls)].op = "save"
  /\ res.status = 200
  /\ res.success
  /\ res.data[1].totalIssues = 2

\* the tag selection WCAG 2.0 A, WCAG 2.0 AA, WCAG 2.1 AA
FixedTags == <<"wcag2a", "wcag2aa", "wcag21aa">>

\* C19: every run of the rule engine, on either route, is restricted to the
\* tags wcag2a, wcag2aa and wcag21aa.
C19_EngineAlwaysRunsFixedTags ==
  \A k \in 1..Len(calls) : calls[k].op = "axe" => calls[k].tags = FixedTags

\* C20: the body a fetch hands to the DOM parser is never longer than the
\* cap of 10MB: once the accumulated body exceeds the cap the transfer is
\* over, the fetch is rejected with 'Response too large', and it is never
\* resolved with data.
C20_BodyNeverExceedsCap ==
  /\ \A k \in 1..Len(calls) :
       (req.endpoint = "analyze-url" /\ calls[k].op = "jsdom") =>
         calls[k].size <= ResponseCap
  /\ (req.endpoint = "analyze-url" /\ fetch.data > ResponseCap) =>
       /\ fetch.phase \in {"destroyed", "closed"}
       /\ fetch.promise.state = "rejected"
       /\ fetch.promise.reason = "Response too large"

----------------------------------------------------------------------------
(* Analyses that overlap in one process                                    *)

MaxJobs == 3

\* MaxJobs requests have parsed their markup with JSDOM; job j has the DOM j
InitOverlap ==
  /\ variant \in Variants
  /\ axeResults = Findings(<<>>, <<>>, <<>>)
  /\ type = ""
  /\ input = ""
  /\ now = 0
  /\ dbConnected = FALSE
  /\ reports = <<>>
  /\ mongodbUri = FALSE
  /\ Analysis = FALSE
  /\ req = [endpoint |-> "analyze-html", body |-> Str("<p>hi</p>")]
  /\ pc = "idle"
  /\ res = NoResponse
  /\ calls = <<>>
  /\ fetch = NoFetch
  /\ failure = NoFailure
  /\ sent = <<>>
  /\ globals = 0
  /\ jobs = [j \in 1..MaxJobs |-> "parsed"]

\* global.window = window; global.document = window.document; and the call
\* of axeCore.run(window.document), at whose await the handler yields
Bind(j) ==
  /\ jobs[j] = "parsed"
  /\ globals' = j
  /\ jobs' = [jobs EXCEPT ![j] = "running"]
  /\ UNCHANGED <<variant, axeResults, input, type, now, dbConnected, reports,
                 mongodbUri, Analysis, req, pc, res, calls, fetch, failure,
                 sent>>

\* await axeCore.run(...) returns and the handler deletes the globals, or it
\* throws into the catch block
Unbind(j) ==
  /\ jobs[j] = "running"
  /\ \E e \in {Ok} \cup EngineErrors :
       IF e.kind = "ok"
       THEN globals' = 0 /\ jobs' = [jobs EXCEPT ![j] = "mapped"]
       ELSE globals' = GlobalsAfterEngineFailure
            /\ jobs' = [jobs EXCEPT ![j] = "failed"]
  /\ UNCHANGED <<variant, axeResults, input, type, now, dbConnected, reports,
                 mongodbUri, Analysis, req, pc, res, calls, fetch, failure,
                 sent>>

NextOverlap == \E j \in 1..MaxJobs : Bind(j) \/ Unbind(j)

SpecOverlap == InitOverlap /\ [][NextOverlap]_vars

----------------------------------------------------------------------------
(* Properties of the handlers' resources and responses                     *)

\* C21: every analyze-by-url request is eventually answered with a success
\* or an error response, whatever the remote server does, a server that
\* answers every request with a redirect included.
C21_EveryUrlRequestIsAnswered ==
  (req.endpoint = "analyze-url") ~> (sent # <<>>)

\* the revisions that do not follow redirects themselves answer every
\* analyze-by-url request
C21_AnsweredWithoutOwnRedirects ==
  (req.endpoint = "analyze-url" /\ variant # "part_a") ~> (sent # <<>>)

\* puppeteer.launch returned a browser
BrowserLaunched == \E k \in 1..Len(calls) : calls[k].op = "launch"

\* the calls that need the browser open
PageCalls == {"newPage", "goto", "axe", "closePage"}

\* browser.close() was called after the last use of the browser
BrowserClosed ==
  \E k \in 1..Len(calls) :
    /\ calls[k].op = "close"
    /\ \A j \in (k + 1)..Len(calls) : calls[j].op \notin PageCalls

\* C22: when the handler of a request that launched a browser has finished,
\* the browser has been closed, whatever the exit path: success, a failure
\* of newPage or the page setup, of the navigation, of the rule engine, of
\* the mapping or of the save.
C22_BrowserClosedOnEveryExit ==
  (pc = "done" /\ BrowserLaunched) => BrowserClosed

\* a request whose mapping threw after the browser had loaded the page and
\* run the engine has finished
C22_Witness ==
  /\ pc = "done"
  /\ BrowserLaunched
  /\ failure.stage = "map"
  /\ sent # <<>>
  /\ sent[1].status = 500
  /\ calls[Len(calls)].op = "close"

\* C23: the success response is sent without waiting for the save: while
\* the save is in progress the response has already been sent.
C23_ResponseDoesNotAwaitSave ==
  pc = "saving" => sent # <<>>

\* C24: on an error exit of a handler that launched a browser, the browser
\* was closed before the error response was sent.
C24_ClosedBeforeErrorResponse ==
  \A i \in 1..Len(sent) :
    (pc = "done" /\ BrowserLaunched /\ sent[i].status >= 400) =>
      \E k \in 1..sent[i].after : calls[k].op = "close"

\* the same for the first revision of server.js alone, whose catch blocks
\* close the browser and then respond
C24_ClosedBeforeErrorResponseServerA ==
  variant = "server_a" => C24_ClosedBeforeErrorResponse

\* C25: when a handler that bound global.window and global.document has
\* finished, the globals are unbound again, also when the rule engine threw.
C25_GlobalsRemovedOnEveryExit ==
  pc = "done" => globals = 0

\* C27: a handler that has finished has sent exactly one response.
C27_ExactlyOneResponse ==
  pc = "done" => Len(sent) = 1

\* a request during which browser.close() or page.close() threw after the
\* engine had run has finished
C27_Witness ==
  /\ pc = "done"
  /\ failure.stage = "close"
  /\ \E k \in 1..Len(calls) : calls[k].op = "axe"
  /\ Len(sent) = 1
  /\ res.status = 500

\* C28: once the store is connected, an analysis that succeeded goes on to
\* save its report: it does not respond without a save.
C28_ConnectedStoreIsWrittenTo ==
  [][(pc = "map" /\ dbConnected /\ pc' # "map") => pc' \in {"save", "done"}]_vars

\* C26: when JSDOM-based analyses overlap, the globals are bound to the DOM
\* of the request whose engine run is in progress: no other request
\* overwrites or deletes the binding during the run.
C26_BindingBelongsToTheRunningJob ==
  \A j \in DOMAIN jobs : jobs[j] = "running" => globals = j

----------------------------------------------------------------------------
(* Properties of the scores of one report                                  *)

\* the count a severity breakdown reports for a severity, 0 when it has no
\* entry for it
BreakdownCount(breakdown, kind) ==
  SumField(SelectSeq(breakdown, LAMBDA item : SeverityKind(item.name) = kind),
           "count")

\* C29: the numbers of violations calculateAccessibilityImpact counts as
\* critical and as serious are the Critical and Serious counts of the
\* severity breakdown of the same report, whatever the case of the impacts.
C29_ImpactAndBreakdownAgree ==
  \A k \in 1..Len(reports) :
    /\ CountImpact(axeResults.violations, "critical")
         = BreakdownCount(reports[k].severityBreakdown, "critical")
    /\ CountImpact(axeResults.violations, "serious")
         = BreakdownCount(reports[k].severityBreakdown, "serious")

\* the score of the findings with one more pass, and with one more violation
ScoreWithOneMorePass ==
  calculateComplianceScore(axeResults.violations,
                           Append(axeResults.passes, Check(<<>>)),
                           axeResults.incomplete)

ScoreWithOneMoreViolation ==
  calculateComplianceScore(Append(axeResults.violations,
                                  Violation(Str("minor"), <<>>)),
                           axeResults.passes, axeResults.incomplete)

\* C30: with at least one check present, one more pass never lowers
\* complianceScore and one more violation never raises it.
C30_ComplianceScoreIsMonotone ==
  NumChecks >= 1 =>
    LET score == calculateComplianceScore(axeResults.violations,
                   axeResults.passes, axeResults.incomplete)
    IN  /\ ScoreWithOneMorePass >= score
        /\ ScoreWithOneMoreViolation <= score

\* a report whose score a further pass raises and a further violation lowers
C30_Witness ==
  /\ reports # <<>>
  /\ NumViolations >= 1
  /\ NumPasses >= 1
  /\ ScoreWithOneMorePass > reports[1].complianceScore
  /\ ScoreWithOneMoreViolation < reports[1].complianceScore

====
